---------------------------- MODULE Spec2Model ----------------------------
(***************************************************************************)
(* furios-terminal, src/terminal.c: the PTY session controller.            *)
(*                                                                         *)
(* Two threads share the staging buffers:                                  *)
(*   - the thread that calls ul_terminal_prepare_current_terminal and then *)
(*     acts as the UI (submits commands, consumes output, asks for an      *)
(*     interrupt);                                                         *)
(*   - tty_thread, which forks the shell on a PTY and runs the multiplex   *)
(*     loop.                                                               *)
(*                                                                         *)
(* Text is a sequence of one-character strings.  A C string is modelled by *)
(* the bytes before its first NUL.  A "char *" is <<>> for NULL and <<s>>  *)
(* for a pointer to the string s.                                          *)
(*                                                                         *)
(* What the operating system answers (open, ioctl, pthread_create,         *)
(* forkpty, poll, read, write, popen) is drawn with \E.  The terminator     *)
(* that follows a read which filled terminal_buffer is written one past    *)
(* the end of the array, which is undefined behaviour: the string then     *)
(* reads either as intended or with the bytes that follow the array in     *)
(* memory (Garbage) appended.                                              *)
(***************************************************************************)
EXTENDS Integers, Sequences, FiniteSets, TLC

\* ------------------------------------------------------------- bounds

\* sizeof(terminal_buffer); terminal.h sets the real value, the model scales it down
BUFFER_SIZE == 4

\* longest command text the UI submits
MaxCmdLen == 1

\* ---------------------------------------------------------- constants

CELL_WIDTH == 8
CELL_HEIGHT == 16

\* copySize-2 > 0: the remainder after the echo must be longer than this
ECHO_NOISE == 2

\* what forkpty returns in the parent when it succeeds, and the master descriptor
ShellPid == 7
MasterFd == 4
\* what open("/dev/tty0") returns when it succeeds
ConsoleFd == 3

\* ------------------------------------------------------------- text

ESC == "e"
Alphabet == {"a", ESC}
\* a byte that lies behind an array whose terminator was written out of bounds
Garbage == "?"

NULL == <<>>

Ptr(s) == <<s>>

Text(n) == UNION {[1..k -> Alphabet] : k \in 0..n}

Min(a, b) == IF a < b THEN a ELSE b

IsPrefix(p, s) == Len(p) <= Len(s) /\ SubSeq(s, 1, Len(p)) = p

\* s without its first n bytes
Drop(s, n) == SubSeq(s, n + 1, Len(s))

\* termstr: an escape sequence is ESC and the byte that ends it; a sequence the
\* buffer ends in the middle of is removed up to the end of the buffer
RECURSIVE remove_escape_codes(_)
remove_escape_codes(s) ==
    IF s = <<>> THEN <<>>
    ELSE IF Head(s) = ESC THEN remove_escape_codes(Drop(s, 2))
    ELSE <<Head(s)>> \o remove_escape_codes(Tail(s))

\* memcpy(dst = buf, src = buf + off, n) followed by buf[n] = 0.  The regions
\* overlap when n > off, which memcpy leaves undefined: a copy that runs from
\* the low addresses up moves the bytes intact, one that runs from the high
\* addresses down reads bytes it has already written.
CopyUp(buf, off, n) == SubSeq(buf, off + 1, off + n)

RECURSIVE CopyDownFrom(_, _, _, _)
CopyDownFrom(buf, off, n, i) ==
    IF i = 0 THEN buf
    ELSE CopyDownFrom([buf EXCEPT ![i] = buf[i + off]], off, n, i - 1)

CopyDown(buf, off, n) == SubSeq(CopyDownFrom(buf, off, n, n), 1, n)

MemcpyResults(buf, off, n) ==
    IF n > off THEN {CopyUp(buf, off, n), CopyDown(buf, off, n)}
    ELSE {CopyUp(buf, off, n)}

\* a string whose terminator was written at index n of an n-byte array
Unterminated(s) == s \o <<Garbage>>

\* --------------------------------------------------------------- state

VARIABLES
    \* ul_terminal_prepare_current_terminal, the caller's thread
    prep_pc,                \* "open", "ioctl", "create", "return", "done"
    prepare_result,         \* "none" until it returns, then "true" or "false"
    current_fd,
    term_width,             \* the arguments of prepare
    term_height,
    dimen,                  \* prepare's local struct term_dimen
    \* tty_thread
    ws,                     \* struct winsize ws, handed to forkpty
    pc,                     \* "none", "width", "height", "forkpty", "poll", "kids", "shell", "clear", "io", "unlock"
    mutex,                  \* tty_mutex: "free" or "loop"
    pid,
    tty_fd,
    entered_command,        \* the EchoWindow
    tmp_length,
    \* shared with the UI
    sig_int_sent,
    term_needs_update,
    terminal_buffer,
    command_buffer,
    command_buffer_length,
    command_buffer_pos,
    command_ready_to_send,
    \* history, read by the properties only
    req,                    \* the latest interrupt request: "none", "new", "kids", "served"
    evlog,                  \* what this iteration has done so far, in order
    int_seen,               \* what the test of sig_int_sent saw in this iteration
    last,                   \* what the read/write step of this iteration did
    sends,                  \* write() calls made for the command request in the buffer
    track,                  \* whether echo_due is kept in this run
    echo_due                \* command texts written to the PTY since the last read

vars == <<prep_pc, prepare_result, current_fd, term_width, term_height,
          dimen, ws, pc, mutex, pid, tty_fd,
          entered_command, tmp_length, sig_int_sent, term_needs_update,
          terminal_buffer, command_buffer, command_buffer_length,
          command_buffer_pos, command_ready_to_send,
          req, evlog, int_seen, last, sends, track, echo_due>>

prepVars == <<prep_pc, prepare_result, current_fd>>
geomVars == <<term_width, term_height, dimen, ws>>
cmdVars == <<command_buffer, command_buffer_length, command_buffer_pos,
             command_ready_to_send>>
outVars == <<term_needs_update, terminal_buffer>>
echoVars == <<entered_command, tmp_length>>
histVars == <<req, evlog, int_seen, last, sends, track, echo_due>>

\* struct term_dimen dimen before lines 252-253 have filled it
NoDimen == [width |-> 0, height |-> 0]

NoStep == [kind |-> "none", pollin |-> FALSE, pollout |-> FALSE,
           rv |-> 0, chunk |-> <<>>, wrote |-> FALSE, wr |-> "none",
           cmd |-> <<>>]

Boot ==
    /\ prep_pc = "open"
    /\ prepare_result = "none"
    /\ current_fd = -1
    /\ pc = "none"
    /\ mutex = "free"
    /\ pid = 0
    /\ tty_fd = 0
    /\ entered_command = NULL
    /\ tmp_length = 0
    /\ sig_int_sent = FALSE
    /\ term_needs_update = FALSE
    /\ terminal_buffer = <<>>
    /\ command_buffer = <<>>
    /\ command_buffer_length = 0
    /\ command_buffer_pos = 0
    /\ command_ready_to_send = FALSE
    /\ req = "none"
    /\ evlog = <<>>
    /\ int_seen = FALSE
    /\ last = NoStep
    /\ sends = 0
    /\ echo_due = {}
    /\ dimen = NoDimen
    /\ ws = [ws_col |-> 0, ws_row |-> 0]

\* main is about to call ul_terminal_prepare_current_terminal(256, 512)
Init ==
    /\ Boot
    /\ track = FALSE
    /\ term_width = 256
    /\ term_height = 512

\* the pixel sizes a caller passes
Widths == {8, 256, 263}
Heights == {16, 512, 527}

\* main is about to call ul_terminal_prepare_current_terminal(w, h)
InitBoot ==
    /\ Boot
    /\ track = FALSE
    /\ term_width \in Widths
    /\ term_height \in Heights

\* the session is up: prepare has returned true, forkpty has returned the
\* shell's pid in tty_thread, and the thread stands at the head of while (1)
Session ==
    /\ prep_pc = "done"
    /\ prepare_result = "true"
    /\ current_fd = ConsoleFd
    /\ pc = "poll"
    /\ mutex = "free"
    /\ pid = ShellPid
    /\ tty_fd = MasterFd
    /\ entered_command = NULL
    /\ tmp_length = 0
    /\ sig_int_sent = FALSE
    /\ term_needs_update = FALSE
    /\ terminal_buffer = <<>>
    /\ command_buffer = <<>>
    /\ command_buffer_length = 0
    /\ command_buffer_pos = 0
    /\ command_ready_to_send = FALSE
    /\ req = "none"
    /\ evlog = <<>>
    /\ int_seen = FALSE
    /\ last = NoStep
    /\ sends = 0
    /\ echo_due = {}
    /\ term_width = 256
    /\ term_height = 512
    /\ dimen = [width |-> 256, height |-> 512]
    /\ ws = [ws_col |-> 256 \div CELL_WIDTH, ws_row |-> 512 \div CELL_HEIGHT]

InitSession == Session /\ track = FALSE

\* the same session, with the history of written commands kept
InitEcho == Session /\ track = TRUE

\* ------------------------------------------- prepare (lines 217-266)

\* reopen_current_terminal: close, then open /dev/tty0; prepare returns false
\* when current_fd < 0
PrepareOpen ==
    /\ prep_pc = "open"
    /\ \E ok \in BOOLEAN :
         IF ok
         THEN /\ current_fd' = ConsoleFd
              /\ prep_pc' = "ioctl"
              /\ prepare_result' = prepare_result
         ELSE /\ current_fd' = -1
              /\ prep_pc' = "done"
              /\ prepare_result' = "false"
    /\ UNCHANGED geomVars
    /\ UNCHANGED <<pc, mutex, pid, tty_fd, echoVars, sig_int_sent, outVars,
                   cmdVars, histVars>>

\* the four ioctls (KDGKBMODE, KDSKBMODE, KDGETMODE, KDSETMODE): the first
\* that fails makes prepare return false
PrepareIoctl ==
    /\ prep_pc = "ioctl"
    /\ \E ok \in BOOLEAN :
         IF ok
         THEN /\ prep_pc' = "create"
              /\ prepare_result' = prepare_result
         ELSE /\ prep_pc' = "done"
              /\ prepare_result' = "false"
    /\ UNCHANGED geomVars
    /\ UNCHANGED <<current_fd, pc, mutex, pid, tty_fd, echoVars, sig_int_sent,
                   outVars, cmdVars, histVars>>

\* where the new thread starts
ThreadEntry == "width"

\* lines 250-258: dimen.width = term_width; dimen.height = term_height;
\* pthread_create(&tty_id, NULL, tty_thread, &dimen)
PrepareCreateThread ==
    /\ prep_pc = "create"
    /\ dimen' = [width |-> term_width, height |-> term_height]
    /\ UNCHANGED <<term_width, term_height, ws>>
    /\ \E ok \in BOOLEAN :
         IF ok
         THEN /\ prep_pc' = "return"
              /\ pc' = ThreadEntry
              /\ prepare_result' = prepare_result
         ELSE /\ prep_pc' = "done"
              /\ pc' = pc
              /\ prepare_result' = "false"
    /\ UNCHANGED <<current_fd, mutex, pid, tty_fd, echoVars, sig_int_sent,
                   outVars, cmdVars, histVars>>

\* return true, whatever the thread has done by now
PrepareReturn ==
    /\ prep_pc = "return"
    /\ prep_pc' = "done"
    /\ prepare_result' = "true"
    /\ UNCHANGED geomVars
    /\ UNCHANGED <<current_fd, pc, mutex, pid, tty_fd, echoVars, sig_int_sent,
                   outVars, cmdVars, histVars>>

\* ------------------------------------- tty_thread (lines 132-210)

\* dimen is a local of prepare: its lifetime ends when prepare returns
DimenLive == prep_pc # "done"

\* what the bytes of a dead local read as once the stack has been reused
Clobbered == 0

\* tty_dimen->width, tty_dimen->height: the value stored while dimen is
\* live; a read through the dangling pointer after prepare has returned is
\* undefined and yields the old value or whatever lies there now
DimenRead(v) == IF DimenLive THEN {v} ELSE {v, Clobbered}

\* an int stored in the unsigned short ws_col or ws_row
ToUShort(n) == n % 65536

\* line 137: ws.ws_col = tty_dimen->width / 8
ReadWidth ==
    /\ pc = "width"
    /\ \E w \in DimenRead(dimen.width) :
         ws' = [ws EXCEPT !.ws_col = ToUShort(w \div CELL_WIDTH)]
    /\ pc' = "height"
    /\ UNCHANGED <<term_width, term_height, dimen>>
    /\ UNCHANGED <<prepVars, mutex, pid, tty_fd, echoVars, sig_int_sent,
                   outVars, cmdVars, histVars>>

\* line 138: ws.ws_row = tty_dimen->height / 16
ReadHeight ==
    /\ pc = "height"
    /\ \E h \in DimenRead(dimen.height) :
         ws' = [ws EXCEPT !.ws_row = ToUShort(h \div CELL_HEIGHT)]
    /\ pc' = "forkpty"
    /\ UNCHANGED <<term_width, term_height, dimen>>
    /\ UNCHANGED <<prepVars, mutex, pid, tty_fd, echoVars, sig_int_sent,
                   outVars, cmdVars, histVars>>

\* what forkpty may return in the calling process: the shell's pid, or -1
ForkptyResults == {ShellPid, -1}

\* pid = forkpty(&tty_fd, NULL, NULL, &ws): on failure tty_fd is left as it
\* was; the else branch is entered for every pid other than 0
Forkpty ==
    /\ pc = "forkpty"
    /\ \E r \in ForkptyResults :
         /\ pid' = r
         /\ tty_fd' = IF r > 0 THEN MasterFd ELSE tty_fd
    /\ pc' = "poll"
    /\ UNCHANGED geomVars
    /\ UNCHANGED <<prepVars, mutex, echoVars, sig_int_sent, outVars, cmdVars,
                   histVars>>

\* a loop that has no "if (sig_int_sent)" block
PcAfterTest_NoHandler(flag) == "io"

\* where the loop goes after the test of sig_int_sent (line 158)
PcAfterTest(flag) == IF flag THEN "kids" ELSE "io"

\* a loop that does not call pthread_mutex_lock
MutexAfterLock_NotTaken == "free"

\* line 153: pthread_mutex_lock(&tty_mutex) has returned
MutexAfterLock == "loop"

\* lines 153-158: pthread_mutex_lock, poll, usleep, and the test of
\* sig_int_sent.  The revents that poll stored are consulted at lines 165 and
\* 195 only, and are drawn there.
LoopLockPoll ==
    /\ pc = "poll"
    /\ mutex = "free"
    /\ mutex' = MutexAfterLock
    /\ int_seen' = sig_int_sent
    /\ evlog' = evlog
    /\ pc' = PcAfterTest(sig_int_sent)
    /\ UNCHANGED geomVars
    /\ UNCHANGED <<prepVars, pid, tty_fd, echoVars, sig_int_sent, outVars,
                   cmdVars, req, last, sends, track, echo_due>>

\* run_kill_child_pids (lines 114-130): popen("pgrep -P <pid>"); when popen
\* fails it returns at once, otherwise every pid that pgrep prints is sent
\* SIGINT
RunKillChildPids ==
    /\ pc = "kids"
    /\ \E popen_ok \in BOOLEAN :
         req' = IF req # "new" THEN req
                ELSE IF popen_ok /\ pid > 0 THEN "kids" ELSE "nokids"
    /\ evlog' = Append(evlog, "kill_children")
    /\ pc' = "shell"
    /\ UNCHANGED geomVars
    /\ UNCHANGED <<prepVars, mutex, pid, tty_fd, echoVars, sig_int_sent,
                   outVars, cmdVars, int_seen, last, sends, track, echo_due>>

\* kill(pid, SIGINT) (line 161)
KillShell ==
    /\ pc = "shell"
    /\ evlog' = Append(evlog, "kill_shell")
    /\ req' = IF pid > 0 /\ req = "kids" THEN "served" ELSE req
    /\ pc' = "clear"
    /\ UNCHANGED geomVars
    /\ UNCHANGED <<prepVars, mutex, pid, tty_fd, echoVars, sig_int_sent,
                   outVars, cmdVars, int_seen, last, sends, track, echo_due>>

\* sig_int_sent = false (line 162)
ClearInterrupt ==
    /\ pc = "clear"
    /\ sig_int_sent' = FALSE
    /\ evlog' = Append(evlog, "clear")
    /\ req' = "none"
    /\ pc' = "io"
    /\ UNCHANGED geomVars
    /\ UNCHANGED <<prepVars, mutex, pid, tty_fd, echoVars, outVars, cmdVars,
                   int_seen, last, sends, track, echo_due>>

\* line 165 without "&& !term_needs_update"
ReadGate_Readable(pollin) == pollin

\* line 165
ReadGate(pollin) == pollin /\ ~term_needs_update

\* line 195 as an "if" of its own, not the else of line 165
WriteGate_NoElse(pollin, pollout) == pollout /\ command_ready_to_send

\* line 195 nested in the read branch
WriteGate_WhenReading(pollin, pollout) ==
    ReadGate(pollin) /\ pollout /\ command_ready_to_send

\* line 195, the else of line 165
WriteGate(pollin, pollout) ==
    ~ReadGate(pollin) /\ pollout /\ command_ready_to_send

\* what a read that succeeds may store: fewer bytes than the array holds, or
\* as many
DataRead ==
    {[rv |-> Len(d), chunk |-> d, buf |-> d] : d \in Text(BUFFER_SIZE - 1)}
    \cup UNION {{[rv |-> BUFFER_SIZE, chunk |-> d, buf |-> b] :
                    b \in {d, Unterminated(d)}} :
                d \in [1..BUFFER_SIZE -> Alphabet]}

\* lines 166-167: readValue = read(tty_fd, &terminal_buffer, BUFFER_SIZE);
\* terminal_buffer[readValue] = '\0'.  rv is what read returned, chunk the
\* bytes it stored, buf the string terminal_buffer then holds: on an error
\* the old string, after a read that filled the array a string whose
\* terminator lies behind the array.
ReadResults ==
    {[rv |-> -1, chunk |-> <<>>, buf |-> terminal_buffer]} \cup DataRead

\* line 170: cut_terminal = malloc(tmp_length), the bytes allocated
CutAlloc(n) == n

\* line 172: the index of cut_terminal[tmp_length] = 0
CutTerminatorAt(n) == n

\* lines 169-173: cut_terminal, the first tmp_length bytes of the buffer
CutTerminal(buf, n) ==
    IF n # 0 THEN Ptr(SubSeq(buf, 1, Min(n, Len(buf)))) ELSE NULL

\* line 175
IsGenuine(ec, cut) ==
    \/ ec = NULL
    \/ cut = NULL
    \/ Len(ec[1]) = 0
    \/ ec[1] # cut[1]

\* line 180
HasRemainder(copySize) == copySize - ECHO_NOISE > 0

\* lines 177-185: the echo branch
EchoResults(buf, ec) ==
    LET S == remove_escape_codes(buf)
        L == Len(ec[1])
        copySize == Len(S) - L
    IN  IF HasRemainder(copySize)
        THEN {[buf |-> b, nu |-> TRUE, kind |-> "echo_pub"] :
                 b \in MemcpyResults(S, L, copySize)}
        ELSE {[buf |-> S, nu |-> term_needs_update, kind |-> "echo_drop"]}

\* lines 175-185
DecideResults(buf, ec, n) ==
    IF IsGenuine(ec, CutTerminal(buf, n))
    THEN {[buf |-> buf, nu |-> TRUE, kind |-> "genuine"]}
    ELSE EchoResults(buf, ec)

\* lines 186-189
FreeEntered(ec) == IF ec # NULL /\ Len(ec[1]) > 0 THEN NULL ELSE ec

\* lines 165-194: every way the read branch can end
ReadBranch ==
    UNION {{[rv |-> r.rv, chunk |-> r.chunk, buf |-> d.buf, nu |-> d.nu,
             kind |-> d.kind, ec |-> FreeEntered(entered_command)] :
               d \in DecideResults(r.buf, entered_command, tmp_length)} :
           r \in ReadResults}

\* the read branch not taken
NoRead ==
    {[rv |-> 0, chunk |-> <<>>, buf |-> terminal_buffer,
      nu |-> term_needs_update, kind |-> "none", ec |-> entered_command]}

\* what write(tty_fd, &command_buffer, sizeof(command_buffer)) may do: take
\* the whole buffer, take less than the text, or fail
WriteResults == {"ok", "short", "fail"}

\* line 199: entered_command = malloc(command_buffer_length), the bytes
\* allocated
EnteredAlloc(n) == n

\* line 201: the index of entered_command[command_buffer_length] = 0
EnteredTerminatorAt(n) == n

\* lines 199-201: entered_command = malloc(command_buffer_length), memcpy,
\* entered_command[command_buffer_length] = '\0'
EnteredCopy(text) == Ptr(text)

\* line 197
ReadyAfterWrite == FALSE

\* lines 195-206: every way the write branch can end, entered by a loop whose
\* EchoWindow is ec; text is the first command_buffer_length bytes of the buffer
WriteBranch(ec) ==
    LET text == SubSeq(command_buffer, 1, command_buffer_length)
    IN  {[wrote |-> TRUE, wr |-> wr, cmd |-> text,
          ready |-> ReadyAfterWrite, pos |-> 0, ec |-> EnteredCopy(text),
          cbuf |-> <<>>, tmp |-> command_buffer_length, len |-> 0] :
            wr \in WriteResults}

\* the write branch not taken
NoWrite(ec) ==
    {[wrote |-> FALSE, wr |-> "none", cmd |-> <<>>,
      ready |-> command_ready_to_send, pos |-> command_buffer_pos, ec |-> ec,
      cbuf |-> command_buffer, tmp |-> tmp_length,
      len |-> command_buffer_length]}

\* lines 165-207: the read branch, else the write branch, then
\* pthread_mutex_unlock is all that is left of the iteration
LoopIO ==
    /\ pc = "io"
    /\ \E pollin \in BOOLEAN, pollout \in BOOLEAN :
       \E r \in (IF ReadGate(pollin) THEN ReadBranch ELSE NoRead) :
       \E w \in (IF WriteGate(pollin, pollout) THEN WriteBranch(r.ec)
                 ELSE NoWrite(r.ec)) :
         /\ terminal_buffer' = r.buf
         /\ term_needs_update' = r.nu
         /\ command_ready_to_send' = w.ready
         /\ command_buffer_pos' = w.pos
         /\ entered_command' = w.ec
         /\ command_buffer' = w.cbuf
         /\ tmp_length' = w.tmp
         /\ command_buffer_length' = w.len
         /\ sends' = IF w.wrote THEN Min(sends + 1, 2) ELSE sends
         /\ echo_due' = IF track /\ w.wrote THEN echo_due \cup {w.cmd}
                        ELSE echo_due
         /\ last' = [kind |-> r.kind, pollin |-> pollin, pollout |-> pollout,
                     rv |-> r.rv, chunk |-> r.chunk,
                     wrote |-> w.wrote, wr |-> w.wr, cmd |-> w.cmd]
    /\ pc' = "unlock"
    /\ evlog' = <<>>
    /\ int_seen' = FALSE
    /\ UNCHANGED geomVars
    /\ UNCHANGED <<prepVars, mutex, pid, tty_fd, sig_int_sent, req, track>>

\* line 207, and back to the head of while (1)
LoopUnlock ==
    /\ pc = "unlock"
    /\ mutex' = "free"
    /\ pc' = "poll"
    /\ last' = NoStep
    /\ echo_due' = IF last.kind # "none" THEN {} ELSE echo_due
    /\ UNCHANGED geomVars
    /\ UNCHANGED <<prepVars, pid, tty_fd, echoVars, sig_int_sent, outVars,
                   cmdVars, req, evlog, int_seen, sends, track>>

\* --------------------------------------------------- the UI thread

\* the UI runs once prepare has returned true
UiRunning == prep_pc = "done" /\ prepare_result = "true"

\* the command texts the UI submits
Commands == Text(MaxCmdLen)

\* submit_command: the UI fills command_buffer and marks it ready; it does
\* not touch a request the loop has not drained yet
SubmitCommand ==
    /\ UiRunning
    /\ mutex = "free"
    /\ ~command_ready_to_send
    /\ \E text \in Commands :
         /\ command_buffer' = text
         /\ command_buffer_length' = Len(text)
         /\ command_buffer_pos' = Len(text)
    /\ command_ready_to_send' = TRUE
    /\ sends' = 0
    /\ UNCHANGED geomVars
    /\ UNCHANGED <<prepVars, pc, mutex, pid, tty_fd, echoVars, sig_int_sent,
                   outVars, req, evlog, int_seen, last, track, echo_due>>

\* poll_output: the UI sees term_needs_update, displays terminal_buffer and
\* clears the flag
ConsumeOutput ==
    /\ UiRunning
    /\ mutex = "free"
    /\ term_needs_update
    /\ term_needs_update' = FALSE
    /\ UNCHANGED geomVars
    /\ UNCHANGED <<prepVars, pc, mutex, pid, tty_fd, echoVars, sig_int_sent,
                   terminal_buffer, cmdVars, histVars>>

\* request_interrupt: any thread, at any moment, without the lock
RequestInterrupt ==
    /\ UiRunning
    /\ sig_int_sent' = TRUE
    /\ req' = "new"
    /\ UNCHANGED geomVars
    /\ UNCHANGED <<prepVars, pc, mutex, pid, tty_fd, echoVars, outVars,
                   cmdVars, evlog, int_seen, last, sends, track, echo_due>>

\* ------------------------------------------------------ specification

Next ==
    \/ PrepareOpen
    \/ PrepareIoctl
    \/ PrepareCreateThread
    \/ PrepareReturn
    \/ ReadWidth
    \/ ReadHeight
    \/ Forkpty
    \/ LoopLockPoll
    \/ RunKillChildPids
    \/ KillShell
    \/ ClearInterrupt
    \/ LoopIO
    \/ LoopUnlock
    \/ SubmitCommand
    \/ ConsumeOutput
    \/ RequestInterrupt

\* the multiplex loop and the UI, once the session is up
NextSession ==
    \/ LoopLockPoll
    \/ RunKillChildPids
    \/ KillShell
    \/ ClearInterrupt
    \/ LoopIO
    \/ LoopUnlock
    \/ SubmitCommand
    \/ ConsumeOutput
    \/ RequestInterrupt

\* prepare and the start of tty_thread, up to the head of while (1)
NextBoot ==
    \/ PrepareOpen
    \/ PrepareIoctl
    \/ PrepareCreateThread
    \/ PrepareReturn
    \/ ReadWidth
    \/ ReadHeight
    \/ Forkpty

\* the program from the call of prepare on
Spec == Init /\ [][Next]_vars

\* the start of the program, for every size the caller may pass
SpecBoot == InitBoot /\ [][NextBoot]_vars

\* the program from the moment the session is up
SpecSession == InitSession /\ [][NextSession]_vars

SpecEcho == InitEcho /\ [][NextSession]_vars

\* a step of tty_thread inside while (1)
LoopStep ==
    \/ LoopLockPoll
    \/ RunKillChildPids
    \/ KillShell
    \/ ClearInterrupt
    \/ LoopIO
    \/ LoopUnlock

\* the session with the loop thread scheduled fairly: while (1) never
\* stops, and the thread is not kept from running for ever
SpecLive == InitSession /\ [][NextSession]_vars /\ WF_vars(LoopStep)

\* the state SpecSession starts in is one the program reaches
SessionReached == Session /\ ~track

TypeOK ==
    /\ prep_pc \in {"open", "ioctl", "create", "return", "done"}
    /\ prepare_result \in {"none", "true", "false"}
    /\ pc \in {"none", "width", "height", "forkpty", "poll", "kids", "shell", "clear", "io", "unlock"}
    /\ req \in {"none", "new", "kids", "nokids", "served"}
    /\ mutex \in {"free", "loop"}
    /\ pid \in {0, -1, ShellPid}
    /\ sig_int_sent \in BOOLEAN
    /\ term_needs_update \in BOOLEAN
    /\ command_ready_to_send \in BOOLEAN
    /\ command_buffer_length = Len(command_buffer)
    /\ tmp_length \in 0..MaxCmdLen
    /\ sends \in 0..2


\* ------------------------------------------------------------ properties

\* the pcs at which tty_thread is inside while (1)
InLoop == pc \in {"poll", "kids", "shell", "clear", "io", "unlock"}

\* the step is the read/write part of an iteration
IoStep == pc = "io" /\ pc' = "unlock"

\* the iteration that has just run published a text to the UI
Published(step) == step.kind \in {"genuine", "echo_pub"}

\* C1: echo suppression.  After a read whose chunk begins with the bytes of a
\* command the loop has written since the read before it, the chunk is not
\* shown to the UI whole, with the echoed command still at its head.
C1_EchoSuppressed ==
    (pc = "unlock" /\ last.kind # "none" /\ last.rv > 0) =>
        \A C \in echo_due :
            (C # <<>> /\ IsPrefix(C, last.chunk)) =>
                ~(term_needs_update /\ IsPrefix(last.chunk, terminal_buffer))

\* C2: genuine output pass-through.  A read that stores a chunk O which does
\* not begin with the text of the EchoWindow (or there is no EchoWindow, or it
\* is empty) sets term_needs_update and leaves terminal_buffer holding O, as
\* read or with its escape sequences removed, and nothing else.
C2_GenuinePassThrough ==
    [][(IoStep /\ last'.kind # "none" /\ last'.rv >= 0
          /\ (\/ entered_command = NULL
              \/ Len(entered_command[1]) = 0
              \/ ~IsPrefix(entered_command[1], last'.chunk)))
        => (/\ term_needs_update'
            /\ terminal_buffer' \in {last'.chunk,
                                     remove_escape_codes(last'.chunk)})]_vars

\* C3: prepare returns true only once the shell has been spawned and the loop
\* runs, and returns false when forkpty has failed.
C3_PrepareResult ==
    /\ prepare_result = "true" => (pid > 0 /\ InLoop)
    /\ (prep_pc = "done" /\ pid = -1) => prepare_result = "false"

\* C4: no interrupt request is lost.  Whenever the loop clears sig_int_sent
\* (after an enumeration of the children that did not fail), the latest
\* request has been followed by the signals to the children and to the shell.
C4_NoInterruptLost ==
    [][(sig_int_sent /\ ~sig_int_sent' /\ req # "nokids") => req = "served"]_vars

C6_AntiOverwrite ==
    [][term_needs_update => terminal_buffer' = terminal_buffer]_vars

\* an iteration found the descriptor readable and did not read, because the
\* output published before is still unconsumed
C6_Witness ==
    /\ pc = "unlock"
    /\ last.pollin
    /\ last.kind = "none"
    /\ term_needs_update
    /\ terminal_buffer # <<>>

\* C7: term_needs_update goes from false to true only in a read that yields
\* new shell data, and from true to false only in a step of the UI.
C7_FlagOnlyByNewData ==
    [][/\ (~term_needs_update /\ term_needs_update') =>
             (IoStep /\ last'.kind # "none" /\ last'.rv > 0)
       /\ (term_needs_update /\ ~term_needs_update') => pc' = pc]_vars

\* C8: the write branch writes the ready command to the PTY, once, and leaves
\* command_ready_to_send false, command_buffer zeroed, its length and cursor
\* 0, and the EchoWindow holding the command's text and length.
C8_WrittenOnce ==
    [][(IoStep /\ last'.wrote) =>
         /\ last'.wr = "ok"
         /\ sends' = 1
         /\ last'.cmd = SubSeq(command_buffer, 1, command_buffer_length)
         /\ ~command_ready_to_send'
         /\ command_buffer' = <<>>
         /\ command_buffer_length' = 0
         /\ command_buffer_pos' = 0
         /\ entered_command' = Ptr(last'.cmd)
         /\ tmp_length' = Len(last'.cmd)]_vars

\* C9: an iteration does at most one of publish and send, and one that finds
\* the descriptor readable with the previous output consumed reads and leaves
\* the command alone, ready and writable or not.
C9_OneOfReadOrSend ==
    [][IoStep =>
         /\ ~(Published(last') /\ last'.wrote)
         /\ ~(last'.kind # "none" /\ last'.wrote)
         /\ (last'.pollin /\ ~term_needs_update) =>
               (last'.kind # "none" /\ ~last'.wrote /\ UNCHANGED cmdVars)]_vars

\* an iteration has read and published while a command was ready and the
\* descriptor writable; the command is still waiting
C9_Witness ==
    /\ pc = "unlock"
    /\ Published(last)
    /\ last.pollout
    /\ command_ready_to_send
    /\ command_buffer # <<>>

\* C10, as stated: a command is sent only in an iteration that finds the
\* descriptor not readable and term_needs_update clear.
C10_SendOnlyWhenQuiet ==
    [][(IoStep /\ last'.wrote) => (~last'.pollin /\ ~term_needs_update)]_vars

\* C10, amended: a command is sent only in an iteration that does not read,
\* that is, one that finds the descriptor not readable or the output published
\* before still unconsumed; it is ready and the descriptor writable.
C10_SendOnlyWhenNotReading ==
    [][(IoStep /\ last'.wrote) =>
         /\ (~last'.pollin \/ term_needs_update)
         /\ last'.kind = "none"
         /\ last'.pollout
         /\ command_ready_to_send
         /\ UNCHANGED outVars]_vars

\* a command has been sent in an iteration that found the descriptor readable
\* and the output published before still unconsumed
C10_Witness ==
    /\ pc = "unlock"
    /\ last.wrote
    /\ last.pollin
    /\ term_needs_update
    /\ last.cmd # <<>>


\* the terminal that forkpty has created has the geometry of ws
PtyCreated == pid > 0

\* C11: geometry.  The pseudo-terminal created for prepare(w, h) has
\* w div 8 columns and h div 16 rows; prepare(256, 512) gives 32 by 32.
C11_Geometry ==
    PtyCreated =>
        /\ ws.ws_col = term_width \div 8
        /\ ws.ws_row = term_height \div 16
        /\ (term_width = 256 /\ term_height = 512) =>
              ws = [ws_col |-> 32, ws_row |-> 32]

\* C19: the dimen record is live whenever tty_thread is about to read its
\* width or its height: prepare has not returned before both are read.
C19_DimenLiveWhenRead ==
    pc \in {"width", "height"} => DimenLive


\* the loop is inside the body of an iteration, between lines 153 and 207
InBody == pc \in {"kids", "shell", "clear", "io", "unlock"}

\* the step is one of tty_thread
ThreadStep == pc' # pc

\* C12: the loop holds tty_mutex from the poll to the end of the iteration:
\* it holds it at every point of the body, every step of the thread that
\* changes the command buffer, the output buffer, their flags or the
\* EchoWindow is taken with the lock held, and the step that ends an
\* iteration releases it.
C12_LockHeldForIteration ==
    [][/\ InBody => mutex = "loop"
       /\ InBody' => mutex' = "loop"
       /\ (ThreadStep /\ <<cmdVars, outVars, echoVars>>' # <<cmdVars, outVars, echoVars>>)
             => (mutex = "loop" /\ mutex' = "loop")
       /\ (pc = "unlock" /\ ThreadStep) => (mutex' = "free" /\ pc' = "poll")
       /\ pc' = "poll" => mutex' = "free"]_vars

\* the loop has published a text and still holds the lock, while the UI has
\* a command waiting
C12_Witness ==
    /\ pc = "unlock"
    /\ mutex = "loop"
    /\ Published(last)
    /\ term_needs_update
    /\ command_ready_to_send
    /\ sig_int_sent


\* the step is a read cycle: the read branch of an iteration
ReadCycle == IoStep /\ last'.kind # "none"

\* the step is a pass through the write branch
WriteCycle == IoStep /\ last'.wrote

\* C13: after every read cycle, whatever branch it took, no command text is
\* outstanding: entered_command is NULL, also when the command written
\* before was the empty one.
C13_EchoWindowDiscarded ==
    [][ReadCycle => entered_command' = NULL]_vars

\* C14: a read that returns an error or no data is not shown to the UI: the
\* iteration leaves term_needs_update and terminal_buffer as they were, and
\* the loop goes on.
C14_FailedReadInvisible ==
    [][(ReadCycle /\ last'.rv <= 0) =>
          (/\ term_needs_update' = term_needs_update
           /\ terminal_buffer' = terminal_buffer
           /\ pc' = "unlock")]_vars

\* C15: a write that fails or is short leaves the command pending: the ready
\* flag and the contents of the command buffer are kept for a later
\* iteration, and the loop goes on.
C15_FailedWriteRetried ==
    [][(WriteCycle /\ last'.wr # "ok") =>
          (/\ command_ready_to_send'
           /\ command_buffer' = command_buffer
           /\ command_buffer_length' = command_buffer_length
           /\ pc' = "unlock")]_vars


\* C16: the echo branch.  When a read chunk begins with the outstanding
\* command C, S being the chunk without its escape sequences,
\* term_needs_update is set exactly when len(S) - len(C) > 2, and then
\* terminal_buffer is S without its first len(C) characters; otherwise the
\* flag stays as it was.
C16_EchoBranchResult ==
    [][(/\ ReadCycle
        /\ last'.rv > 0
        /\ entered_command # NULL
        /\ Len(entered_command[1]) > 0
        /\ IsPrefix(entered_command[1], last'.chunk))
       => LET S == remove_escape_codes(last'.chunk)
              L == Len(entered_command[1])
          IN  /\ term_needs_update' = (Len(S) - L > 2)
              /\ (Len(S) - L > 2) => terminal_buffer' = Drop(S, L)]_vars


\* the step is the call kill(pid, SIGINT) of line 161
KillStep == pc = "shell" /\ pc' = "clear"

\* C17: kill is never called with a process id that is zero or negative:
\* whenever line 161 runs, pid is the pid of the spawned shell.
C17_KillTargetsShell ==
    [][KillStep => pid > 0]_vars


\* C18: every terminator lands inside the array it terminates: the index
\* read() returned is in 0..BUFFER_SIZE-1, and the indices that terminate
\* cut_terminal and entered_command are below the number of bytes allocated.
C18_TerminatorsInBounds ==
    [][/\ ReadCycle =>
            /\ last'.rv \in 0..(BUFFER_SIZE - 1)
            /\ tmp_length # 0 =>
                  CutTerminatorAt(tmp_length) < CutAlloc(tmp_length)
       /\ WriteCycle =>
            EnteredTerminatorAt(command_buffer_length)
                < EnteredAlloc(command_buffer_length)]_vars


\* every iteration finds the PTY writable
AlwaysWritable == [](pc = "unlock" => last.pollout)

\* C20: with the loop scheduled fairly and the PTY writable in every
\* iteration, a command that is ready is eventually written to the PTY,
\* whatever the shell and the UI do.
C20_ReadyEventuallyWritten ==
    AlwaysWritable =>
        (command_ready_to_send ~> (pc = "unlock" /\ last.wrote))

=============================================================================
